---- MODULE Spec2Model ----
(***************************************************************************)
(* A model of src/api/main.py: the fix cache (FixCache), the error parser, *)
(* the clean-code extractor, the consolidated fix generator and the batch  *)
(* processor.  Python strings are TLA+ strings, handled character by       *)
(* character with Len, SubSeq and \o.                                      *)
(***************************************************************************)
EXTENDS Integers, Sequences, FiniteSets, TLC

(***************************************************************************)
(* Bounds of the model.                                                    *)
(***************************************************************************)
\* capacity of the modelled cache (the program runs with max_size = 1000)
MaxSize == 2
\* number of get/set calls made on the cache in CacheSpec
MaxOps == 4
\* number of fixBatch requests, each handled by a task of its own
NumTasks == 2
\* largest number of errors of a batch in FingerprintSpec
MaxBatchLen == 2
\* the lines of a snippet given to the sanitizer
MaxLines == 2
\* the parsed errors given to the rule-based repairer
MaxErrors == 2

(***************************************************************************)
(* Python's str methods, as far as the program uses them.                  *)
(***************************************************************************)
Ch(s, i) == SubSeq(s, i, i)

\* str.startswith
StartsWith(s, p) == Len(s) >= Len(p) /\ SubSeq(s, 1, Len(p)) = p

\* str.endswith
EndsWith(s, p) == Len(s) >= Len(p) /\ SubSeq(s, Len(s) - Len(p) + 1, Len(s)) = p

\* s[i:] (i counted from 1)
From(s, i) == SubSeq(s, i, Len(s))

\* the whitespace str.strip() removes (the characters the model uses)
IsSpace(c) == c \in {" ", "\n", "\t"}

RECURSIVE LStrip(_)
LStrip(s) == IF Len(s) > 0 /\ IsSpace(Ch(s, 1)) THEN LStrip(Tail(s)) ELSE s

RECURSIVE RStrip(_)
RStrip(s) ==
    IF Len(s) > 0 /\ IsSpace(Ch(s, Len(s)))
    THEN RStrip(SubSeq(s, 1, Len(s) - 1))
    ELSE s

Strip(s) == LStrip(RStrip(s))

\* the positions at which sub occurs in s
Occurrences(s, sub) ==
    {i \in 1..(Len(s) - Len(sub) + 1) : SubSeq(s, i, i + Len(sub) - 1) = sub}

\* sub in s
Contains(s, sub) == Occurrences(s, sub) # {}

\* str.count for a single character
Count(s, c) == Cardinality({i \in 1..Len(s) : Ch(s, i) = c})

Min(S) == CHOOSE x \in S : \A y \in S : x <= y

\* str.split(sep) for a one-character separator: never an empty list
RECURSIVE Split(_, _)
Split(s, sep) ==
    IF Occurrences(s, sep) = {}
    THEN <<s>>
    ELSE LET i == Min(Occurrences(s, sep))
         IN  <<SubSeq(s, 1, i - 1)>> \o Split(From(s, i + 1), sep)

\* sep.join(parts)
RECURSIVE Join(_, _)
Join(parts, sep) ==
    IF Len(parts) = 0 THEN ""
    ELSE IF Len(parts) = 1 THEN parts[1]
    ELSE parts[1] \o sep \o Join(Tail(parts), sep)

\* s * n
RECURSIVE Repeat(_, _)
Repeat(s, n) == IF n <= 0 THEN "" ELSE s \o Repeat(s, n - 1)

\* str.replace(c, '', n) for a single character c: the first n removed
RECURSIVE RemoveFirst(_, _, _)
RemoveFirst(s, c, n) ==
    IF n <= 0 \/ Len(s) = 0 THEN s
    ELSE IF Ch(s, 1) = c THEN RemoveFirst(Tail(s), c, n - 1)
    ELSE Ch(s, 1) \o RemoveFirst(Tail(s), c, n)

\* str.replace(old, '') : every occurrence removed, left to right
RECURSIVE RemoveAll(_, _)
RemoveAll(s, old) ==
    IF Len(s) = 0 THEN s
    ELSE IF StartsWith(s, old) THEN RemoveAll(From(s, Len(old) + 1), old)
    ELSE Ch(s, 1) \o RemoveAll(Tail(s), old)

Digit(d) == SubSeq("0123456789", d + 1, d + 1)

\* str(n) of an int, as an f-string formats it
RECURSIVE NatToStr(_)
NatToStr(n) == IF n < 10 THEN Digit(n) ELSE NatToStr(n \div 10) \o Digit(n % 10)

IntToStr(n) == IF n < 0 THEN "-" \o NatToStr(-n) ELSE NatToStr(n)

(***************************************************************************)
(* The regular expressions of the program, each as the search it performs. *)
(***************************************************************************)
\* \w for the characters of the model's strings
IsWord(c) ==
    Contains("abcdefghijklmnopqrstuvwxyzABCDEFGHIJKLMNOPQRSTUVWXYZ0123456789_", c)

IsDigit(c) == Contains("0123456789", c)

\* the start of the run of \w characters that ends just before position p
RECURSIVE WordStart(_, _)
WordStart(s, p) ==
    IF p > 1 /\ IsWord(Ch(s, p - 1)) THEN WordStart(s, p - 1) ELSE p

\* re.search(r'(\w*<suffix>):', s), suffix being Error, Exception or Warning:
\* <<>> when nothing matches, else <<group(1)>> of the leftmost match
SearchSuffix(s, suffix) ==
    LET occ == Occurrences(s, suffix \o ":")
    IN  IF occ = {} THEN <<>>
        ELSE LET p == Min(occ)
             IN  <<SubSeq(s, WordStart(s, p), p + Len(suffix) - 1)>>

\* re.sub(r'(\w*<suffix>):', '', s): every match removed
RECURSIVE SubSuffix(_, _)
SubSuffix(s, suffix) ==
    LET occ == Occurrences(s, suffix \o ":")
    IN  IF occ = {} THEN s
        ELSE LET p == Min(occ)
             IN  SubSeq(s, 1, WordStart(s, p) - 1)
                 \o SubSuffix(From(s, p + Len(suffix) + 1), suffix)

\* re.search(r'"(\[|\(|\{)" was not closed', s)
MatchesNotClosed(s) ==
    \E b \in {"[", "(", "{"} : Contains(s, "\"" \o b \o "\" was not closed")

\* re.search(r'"(\]|\)|\})" was never opened', s)
MatchesNeverOpened(s) ==
    \E b \in {"]", ")", "}"} : Contains(s, "\"" \o b \o "\" was never opened")

\* the first position >= i of s that holds no whitespace (Len(s) + 1 if none)
RECURSIVE SkipSpace(_, _)
SkipSpace(s, i) ==
    IF i <= Len(s) /\ IsSpace(Ch(s, i)) THEN SkipSpace(s, i + 1) ELSE i

\* the first position >= i of s that holds no digit
RECURSIVE SkipDigits(_, _)
SkipDigits(s, i) ==
    IF i <= Len(s) /\ IsDigit(Ch(s, i)) THEN SkipDigits(s, i + 1) ELSE i

\* re.sub(r'^\s*\d+:\s*', '', s)
StripLineNumber(s) ==
    LET d == SkipSpace(s, 1)
        c == SkipDigits(s, d)
    IN  IF c > d /\ c <= Len(s) /\ Ch(s, c) = ":"
        THEN From(s, SkipSpace(s, c + 1))
        ELSE s

(***************************************************************************)
(* ErrorParser.parse_python_error                                          *)
(***************************************************************************)
ErrorSuffixes == <<"Error", "Exception", "Warning">>

\* the first of the three suffix patterns that matches line (0 if none)
FirstSuffixRule(line) ==
    IF \E i \in 1..3 : SearchSuffix(line, ErrorSuffixes[i]) # <<>>
    THEN Min({i \in 1..3 : SearchSuffix(line, ErrorSuffixes[i]) # <<>>})
    ELSE 0

\* a variant of parse_python_error: the three suffix patterns are tried
\* before the two bracket patterns
parse_python_error_suffix_first(error_message) ==
    LET lines == Split(Strip(error_message), "\n")
        error_line == lines[Len(lines)]
        r == FirstSuffixRule(error_line)
    IN  IF r # 0
        THEN [error_type |-> SearchSuffix(error_line, ErrorSuffixes[r])[1],
              error_detail |-> Strip(SubSuffix(error_line, ErrorSuffixes[r])),
              full_traceback |-> error_message]
        ELSE [error_type |-> "SyntaxError", error_detail |-> error_line,
              full_traceback |-> error_message]

parse_python_error(error_message) ==
    LET lines == Split(Strip(error_message), "\n")
        error_line == lines[Len(lines)]
        r == FirstSuffixRule(error_line)
    IN  IF MatchesNotClosed(error_line) \/ MatchesNeverOpened(error_line)
        THEN [error_type |-> "SyntaxError", error_detail |-> error_line,
              full_traceback |-> error_message]
        ELSE IF r # 0
        THEN [error_type |-> SearchSuffix(error_line, ErrorSuffixes[r])[1],
              error_detail |-> Strip(SubSuffix(error_line, ErrorSuffixes[r])),
              full_traceback |-> error_message]
        ELSE [error_type |-> "SyntaxError", error_detail |-> error_line,
              full_traceback |-> error_message]

(***************************************************************************)
(* CleanCodeExtractor.extract_clean_code                                   *)
(***************************************************************************)
\* a line that is only injected context
IsContextLine(line) ==
    \/ StartsWith(Strip(line), "# File imports:")
    \/ StartsWith(Strip(line), "# Function context:")

\* the line with its >>> marker removed and its indentation rebuilt
RemoveMarker(line) ==
    IF Contains(line, ">>>")
    THEN Repeat(" ", (Len(line) - Len(LStrip(line))) - 4)
         \o Strip(RemoveAll(line, ">>>"))
    ELSE line

\* what one line of the snippet contributes: <<>> or <<clean_line>>
CleanLine(line) ==
    IF IsContextLine(line) THEN <<>>
    ELSE LET clean_line == StripLineNumber(RemoveMarker(line))
         IN  IF Strip(clean_line) # "" \/ Strip(line) = ""
             THEN <<clean_line>>
             ELSE <<>>

RECURSIVE CleanLines(_)
CleanLines(lines) ==
    IF Len(lines) = 0 THEN <<>>
    ELSE CleanLine(Head(lines)) \o CleanLines(Tail(lines))

extract_clean_code(code_snippet) ==
    Strip(Join(CleanLines(Split(code_snippet, "\n")), "\n"))

(***************************************************************************)
(* ConsolidatedFixGenerator._generate_rule_based_fixes                     *)
(* A result is the tuple the program returns, as a record; a confidence is *)
(* counted in hundredths (0.9 is 90).                                      *)
(***************************************************************************)
\* a variant of RuleStep: an unclosed bracket gets one closing bracket,
\* however many are missing
RuleStepOneBracket(st, error) ==
    IF /\ error.error_type = "SyntaxError"
       /\ Contains(error.error_detail, "\"[\" was not closed")
       /\ Count(st.primary_fix, "[") > Count(st.primary_fix, "]")
    THEN [primary_fix |-> st.primary_fix \o "]",
          alternative_fix |-> RemoveFirst(st.primary_fix \o "]", "[", 1),
          fixed_issues |-> Append(st.fixed_issues,
              "Added 1 missing closing bracket(s)")]
    ELSE st

\* the loop body: st holds primary_fix, alternative_fix and fixed_issues
RuleStep(st, error) ==
    LET primary_fix == st.primary_fix
        detail == error.error_detail
        missingB == Count(primary_fix, "[") - Count(primary_fix, "]")
        missingP == Count(primary_fix, "(") - Count(primary_fix, ")")
    IN  IF error.error_type # "SyntaxError" THEN st
        ELSE IF Contains(detail, "\"[\" was not closed")
        THEN IF missingB > 0
             THEN [primary_fix |-> primary_fix \o Repeat("]", missingB),
                   alternative_fix |->
                       RemoveFirst(primary_fix \o Repeat("]", missingB), "[", missingB),
                   fixed_issues |-> Append(st.fixed_issues,
                       "Added " \o IntToStr(missingB) \o " missing closing bracket(s)")]
             ELSE st
        ELSE IF Contains(detail, "\"(\" was not closed")
        THEN IF missingP > 0
             THEN [primary_fix |-> primary_fix \o Repeat(")", missingP),
                   alternative_fix |->
                       RemoveFirst(primary_fix \o Repeat(")", missingP), "(", missingP),
                   fixed_issues |-> Append(st.fixed_issues,
                       "Added " \o IntToStr(missingP)
                       \o " missing closing parenthesis/parentheses")]
             ELSE st
        ELSE IF Contains(detail, "Statements must be separated")
        THEN IF /\ Contains(primary_fix, "writer.writerow")
                /\ ~EndsWith(RStrip(primary_fix), ")")
             THEN [primary_fix |-> RStrip(primary_fix) \o ")",
                   alternative_fix |-> RStrip(primary_fix) \o ")",
                   fixed_issues |-> Append(st.fixed_issues,
                       "Added missing closing parenthesis for function call")]
             ELSE st
        ELSE st

RECURSIVE RuleLoop(_, _)
RuleLoop(st, parsed_errors) ==
    IF Len(parsed_errors) = 0 THEN st
    ELSE RuleLoop(RuleStep(st, Head(parsed_errors)), Tail(parsed_errors))

generate_rule_based_fixes(clean_code, parsed_errors) ==
    LET st == RuleLoop([primary_fix |-> clean_code, alternative_fix |-> clean_code,
                        fixed_issues |-> <<>>], parsed_errors)
        fixed == Len(st.fixed_issues) > 0
    IN  [primary_fix |-> st.primary_fix,
         alternative_fix |-> st.alternative_fix,
         primary_explanation |-> "Fixed syntax errors: " \o
             (IF fixed THEN Join(st.fixed_issues, ", ") ELSE "Applied standard fixes"),
         alternative_explanation |-> "Alternative approach: " \o
             (IF fixed THEN Join(st.fixed_issues, ", ") ELSE "Applied alternative fixes"),
         primary_confidence |-> IF fixed THEN 90 ELSE 60,
         alternative_confidence |-> IF fixed THEN 80 ELSE 50]

(***************************************************************************)
(* ConsolidatedFixGenerator._parse_ai_response                             *)
(***************************************************************************)
\* TLA+ string literals cannot hold a backquote: the model writes the
\* backquote of a response as an apostrophe, so a code fence is three of them.
Fence == "'''"

FenceOpen == Fence \o "python\n"

\* re.search(label + r'\s*<fence>python\n(.*?)<fence>', resp, re.DOTALL):
\* <<>> when nothing matches, else <<group(1)>>
SearchCodeBlock(resp, label) ==
    LET Open(p) == SkipSpace(resp, p + Len(label))
        cands == {p \in Occurrences(resp, label) :
                     /\ StartsWith(From(resp, Open(p)), FenceOpen)
                     /\ Contains(From(resp, Open(p) + Len(FenceOpen)), Fence)}
    IN  IF cands = {} THEN <<>>
        ELSE LET body == From(resp, Open(Min(cands)) + Len(FenceOpen))
             IN  <<SubSeq(body, 1, Min(Occurrences(body, Fence)) - 1)>>

\* re.search(label + r'\s*(.*?)(?=stop1|stop2|$)', resp, re.DOTALL), stripped:
\* <<>> when the label is absent, else <<group(1).strip()>>.  ($ also matches
\* before a final newline; the strip makes the two ends give the same text.)
SearchExplanation(resp, label, stops) ==
    IF ~Contains(resp, label) THEN <<>>
    ELSE LET q == SkipSpace(resp, Min(Occurrences(resp, label)) + Len(label))
             ends == {j \in q..(Len(resp) + 1) :
                         \/ j = Len(resp) + 1
                         \/ \E st \in stops : StartsWith(From(resp, j), st)}
         IN  <<Strip(SubSeq(resp, q, Min(ends) - 1))>>

\* the first position >= i of s that holds none of [0-9.]
RECURSIVE SkipNumber(_, _)
SkipNumber(s, i) ==
    IF i <= Len(s) /\ (IsDigit(Ch(s, i)) \/ Ch(s, i) = ".")
    THEN SkipNumber(s, i + 1)
    ELSE i

\* re.search(label + r'\s*([0-9.]+)', resp): <<>> or <<group(1)>>
SearchConfidence(resp, label) ==
    LET Num(p) == SkipSpace(resp, p + Len(label))
        cands == {p \in Occurrences(resp, label) :
                     SkipNumber(resp, Num(p)) > Num(p)}
    IN  IF cands = {} THEN <<>>
        ELSE LET q == Num(Min(cands))
             IN  <<SubSeq(resp, q, SkipNumber(resp, q) - 1)>>

RECURSIVE StrToNat(_)
StrToNat(s) ==
    IF Len(s) = 0 THEN 0
    ELSE 10 * StrToNat(SubSeq(s, 1, Len(s) - 1))
         + Min(Occurrences("0123456789", Ch(s, Len(s)))) - 1

\* whether float(s) succeeds, for s made of [0-9.]
FloatOk(s) == Count(s, ".") <= 1 /\ Len(s) > Count(s, ".")

\* float(s) in hundredths (digits beyond the second decimal are dropped)
Float100(s) ==
    LET parts == Split(s, ".")
        frac == IF Len(parts) > 1 THEN SubSeq(parts[2] \o "00", 1, 2) ELSE "00"
    IN  100 * StrToNat(parts[1]) + StrToNat(frac)

\* min(1.0, max(0.0, x)) in hundredths
Clamp(x) == IF x > 100 THEN 100 ELSE IF x < 0 THEN 0 ELSE x

parse_ai_response(ai_response, original_code) ==
    LET pfix == SearchCodeBlock(ai_response, "PRIMARY_FIX:")
        pexp == SearchExplanation(ai_response, "PRIMARY_EXPLANATION:",
                                  {"PRIMARY_CONFIDENCE:", "ALTERNATIVE_FIX:"})
        pconf == SearchConfidence(ai_response, "PRIMARY_CONFIDENCE:")
        afix == SearchCodeBlock(ai_response, "ALTERNATIVE_FIX:")
        aexp == SearchExplanation(ai_response, "ALTERNATIVE_EXPLANATION:",
                                  {"ALTERNATIVE_CONFIDENCE:"})
        aconf == SearchConfidence(ai_response, "ALTERNATIVE_CONFIDENCE:")
        \* float() of the primary confidence raised: the except clause ends the
        \* extraction, and the alternative fields keep their defaults
        raised1 == pconf # <<>> /\ ~FloatOk(pconf[1])
    IN  [primary_fix |-> IF pfix # <<>> THEN Strip(pfix[1]) ELSE original_code,
         primary_explanation |-> IF pexp # <<>> THEN pexp[1] ELSE "AI provided fixes",
         primary_confidence |->
             IF pconf # <<>> /\ FloatOk(pconf[1]) THEN Clamp(Float100(pconf[1])) ELSE 80,
         alternative_fix |->
             IF ~raised1 /\ afix # <<>> THEN Strip(afix[1]) ELSE original_code,
         alternative_explanation |->
             IF ~raised1 /\ aexp # <<>> THEN aexp[1] ELSE "Alternative AI fixes",
         alternative_confidence |->
             IF ~raised1 /\ aconf # <<>> /\ FloatOk(aconf[1])
             THEN Clamp(Float100(aconf[1])) ELSE 70]

(***************************************************************************)
(* FixCache.  An instance is a record of its attributes.  cache maps a key *)
(* to the stored fix; access_times is the dict of timestamps in insertion  *)
(* order (the order min() iterates it in), a sequence of [key, time].      *)
(***************************************************************************)
EmptyMap == [k \in {} |-> <<>>]

\* FixCache.__init__
FixCache(max_size) ==
    [cache |-> EmptyMap, access_times |-> <<>>, max_size |-> max_size,
     hit_count |-> 0, total_requests |-> 0]

\* hashlib.md5(...).hexdigest(): a digest of the signature, taken to be free
\* of collisions on the signatures of the model
make_key(errors_signature) == "md5(" \o errors_signature \o ")"

\* the keys of the access_times dict
TimeKeys(access_times) == {access_times[i].key : i \in DOMAIN access_times}

\* access_times[key]
TimeOf(access_times, key) ==
    access_times[CHOOSE i \in DOMAIN access_times : access_times[i].key = key].time

\* access_times[key] = now: in place for a key of the dict, else appended
SetTime(access_times, key, now) ==
    IF key \in TimeKeys(access_times)
    THEN [i \in DOMAIN access_times |->
            IF access_times[i].key = key THEN [key |-> key, time |-> now]
            ELSE access_times[i]]
    ELSE Append(access_times, [key |-> key, time |-> now])

\* a variant of DelTime: the timestamp of an evicted key is left behind
DelTimeForgotten(access_times, key) == access_times

\* del access_times[key]
DelTime(access_times, key) == SelectSeq(access_times, LAMBDA e : e.key # key)

\* del cache[key]
DelKey(cache, key) == [k \in DOMAIN cache \ {key} |-> cache[k]]

\* a variant of PutKey: a key the cache holds keeps its fix
PutKeyIfAbsent(cache, key, fix) ==
    [k \in DOMAIN cache \cup {key} |-> IF k \in DOMAIN cache THEN cache[k] ELSE fix]

\* cache[key] = fix
PutKey(cache, key, fix) ==
    [k \in DOMAIN cache \cup {key} |-> IF k = key THEN fix ELSE cache[k]]

\* a variant of oldest_key: the key of the largest timestamp
newest_key(access_times) ==
    LET most == CHOOSE m \in {access_times[i].time : i \in DOMAIN access_times} :
                    \A i \in DOMAIN access_times : access_times[i].time <= m
        first == Min({i \in DOMAIN access_times : access_times[i].time = most})
    IN  access_times[first].key

\* min(self.access_times, key=self.access_times.get): the first key, in the
\* dict's order, among those of the smallest timestamp
oldest_key(access_times) ==
    LET least == Min({access_times[i].time : i \in DOMAIN access_times})
        first == Min({i \in DOMAIN access_times : access_times[i].time = least})
    IN  access_times[first].key

\* a variant of evict: an entry is evicted only once the cache is over its
\* capacity
evict_when_over(c) ==
    IF Cardinality(DOMAIN c.cache) > c.max_size
    THEN LET oldest == oldest_key(c.access_times)
         IN  [c EXCEPT !.cache = DelKey(@, oldest),
                       !.access_times = DelTime(@, oldest)]
    ELSE c

\* the eviction of FixCache.set (lines 74 to 77)
evict(c) ==
    IF Cardinality(DOMAIN c.cache) >= c.max_size
    THEN LET oldest == oldest_key(c.access_times)
         IN  [c EXCEPT !.cache = DelKey(@, oldest),
                       !.access_times = DelTime(@, oldest)]
    ELSE c

\* a variant of cache_get: a hit takes the entry out of the cache
cache_get_popping(c, errors_signature, now) ==
    LET key == make_key(errors_signature)
    IN  IF key \in DOMAIN c.cache
        THEN [c |-> [c EXCEPT !.total_requests = @ + 1,
                              !.hit_count = @ + 1,
                              !.cache = DelKey(@, key),
                              !.access_times = DelTime(@, key)],
              value |-> <<c.cache[key]>>]
        ELSE [c |-> [c EXCEPT !.total_requests = @ + 1], value |-> <<>>]

\* a variant of cache_get: every lookup counts as a hit
cache_get_counting_hits(c, errors_signature, now) ==
    LET key == make_key(errors_signature)
    IN  IF key \in DOMAIN c.cache
        THEN [c |-> [c EXCEPT !.total_requests = @ + 1,
                              !.hit_count = @ + 1,
                              !.access_times = SetTime(@, key, now)],
              value |-> <<c.cache[key]>>]
        ELSE [c |-> [c EXCEPT !.total_requests = @ + 1, !.hit_count = @ + 1],
              value |-> <<>>]

\* FixCache.get, time.time() returning now: the instance afterwards and the
\* value returned, <<>> for None and <<fix>> for a hit
cache_get(c, errors_signature, now) ==
    LET key == make_key(errors_signature)
    IN  IF key \in DOMAIN c.cache
        THEN [c |-> [c EXCEPT !.total_requests = @ + 1,
                              !.hit_count = @ + 1,
                              !.access_times = SetTime(@, key, now)],
              value |-> <<c.cache[key]>>]
        ELSE [c |-> [c EXCEPT !.total_requests = @ + 1], value |-> <<>>]

\* a variant of cache_set: a full cache takes no new entry
cache_set_unless_full(c, errors_signature, fix, now) ==
    LET key == make_key(errors_signature)
    IN  IF Cardinality(DOMAIN c.cache) >= c.max_size
        THEN c
        ELSE [c EXCEPT !.cache = PutKey(@, key, fix),
                       !.access_times = SetTime(@, key, now)]

\* FixCache.set, time.time() returning now: the instance afterwards
cache_set(c, errors_signature, fix, now) ==
    LET key == make_key(errors_signature)
        e == evict(c)
    IN  [e EXCEPT !.cache = PutKey(@, key, fix),
                  !.access_times = SetTime(@, key, now)]

\* FixCache.stats, the hit rate as the pair <<numerator, denominator>>
cache_stats(c) ==
    [size |-> Cardinality(DOMAIN c.cache),
     max_size |-> c.max_size,
     hit_rate |-> <<c.hit_count,
                    IF c.total_requests > 1 THEN c.total_requests ELSE 1>>,
     hit_count |-> c.hit_count,
     total_requests |-> c.total_requests]

(***************************************************************************)
(* ConsolidatedFixGenerator.generate_consolidated_fix and its helpers, and *)
(* ConsolidatedBatchProcessor.process_consolidated_batch.  A batch is the  *)
(* sequence batch_request.errors; an item holds the three fields read.     *)
(***************************************************************************)
BatchErrorItem(m, c, l) ==
    [error_message |-> m, code_snippet |-> c, line_number |-> l]

RECURSIVE SignatureParts(_)
SignatureParts(errors) ==
    IF Len(errors) = 0 THEN <<>>
    ELSE <<Head(errors).error_message \o ":" \o IntToStr(Head(errors).line_number)>>
         \o SignatureParts(Tail(errors))

\* '|'.join([f"{e.error_message}:{e.line_number}" for e in errors])
errors_signature(errors) == Join(SignatureParts(errors), "|")

\* parsed_errors
RECURSIVE ParseAll(_)
ParseAll(errors) ==
    IF Len(errors) = 0 THEN <<>>
    ELSE <<parse_python_error(Head(errors).error_message)>> \o ParseAll(Tail(errors))

\* error_descriptions
RECURSIVE Describe(_)
Describe(errors) ==
    IF Len(errors) = 0 THEN <<>>
    ELSE <<"Line " \o IntToStr(Head(errors).line_number) \o ": "
           \o parse_python_error(Head(errors).error_message).error_detail>>
         \o Describe(Tail(errors))

\* ConsolidatedFix(...) of generate_consolidated_fix, r being what
\* _generate_fixes returned
ConsolidatedFix(errors, r) ==
    [primary_fix |-> r.primary_fix,
     primary_explanation |-> r.primary_explanation,
     primary_confidence |-> r.primary_confidence,
     alternative_fix |-> r.alternative_fix,
     alternative_explanation |-> r.alternative_explanation,
     alternative_confidence |-> r.alternative_confidence,
     errors_fixed |-> Describe(errors),
     total_errors |-> Len(errors)]

\* fallback_fix of process_consolidated_batch, e being str(e)
FallbackFix(errors, e) ==
    LET clean_code == extract_clean_code(errors[1].code_snippet)
    IN  [primary_fix |-> clean_code,
         primary_explanation |-> "Processing failed: " \o e,
         primary_confidence |-> 10,
         alternative_fix |-> "# TODO: Fix errors manually\n" \o clean_code,
         alternative_explanation |-> "Manual review required",
         alternative_confidence |-> 10,
         errors_fixed |-> <<"Error processing: " \o e>>,
         total_errors |-> Len(errors)]

\* ConsolidatedFixResponse, without its processing_time (a difference of two
\* clock readings that nothing else reads)
ConsolidatedFixResponse(fix, success) ==
    [consolidated_fix |-> fix, success |-> success]

\* what the POST of _generate_ai_fixes can end in: status 200 with a body
\* whose 'response' is text, another status, or an exception (a timeout, a
\* transport error, a body that is no JSON object)
Outcome200(text) == [kind |-> "200", response |-> text]
OutcomeStatus == [kind |-> "status", response |-> ""]
OutcomeException == [kind |-> "exception", response |-> ""]

\* a variant of generate_ai_fixes: a failed request is parsed as an empty
\* response
generate_ai_fixes_no_fallback(clean_code, parsed_errors, outcome) ==
    parse_ai_response(outcome.response, clean_code)

\* _generate_ai_fixes from the end of the POST on (lines 305 to 317)
generate_ai_fixes(clean_code, parsed_errors, outcome) ==
    IF outcome.kind = "200"
    THEN parse_ai_response(outcome.response, clean_code)
    ELSE generate_rule_based_fixes(clean_code, parsed_errors)

\* _generate_fixes, the probe having answered ollama_available
generate_fixes(clean_code, parsed_errors, ollama_available, outcome) ==
    IF ollama_available
    THEN generate_ai_fixes(clean_code, parsed_errors, outcome)
    ELSE generate_rule_based_fixes(clean_code, parsed_errors)

(***************************************************************************)
(* The state.                                                              *)
(***************************************************************************)
VARIABLES
    fix_cache,  \* the global FixCache instance
    clock,      \* the latest value time.time() returned
    pc,         \* pc[t]: where task t is: idle, probe, generate, finished
    req,        \* req[t]: the batch of task t (<<>> before it starts)
    returned,   \* how the latest call of process_consolidated_batch ended
    api,        \* CacheSpec: the latest call made on the cache and its result
    fp,         \* FingerprintSpec: two batches and their signatures
    fn          \* FunctionSpec: the latest call of a pure function

vars == <<fix_cache, clock, pc, req, returned, api, fp, fn>>

Tasks == 1..NumTasks

(***************************************************************************)
(* The requests of the model.  B2 and B3 are different batches of the same *)
(* signature.                                                              *)
(***************************************************************************)
B1 == <<BatchErrorItem("SyntaxError: \"[\" was not closed", "  3: x = [1", 3)>>
B2 == <<BatchErrorItem("a", "y = 2", 1), BatchErrorItem("NameError: b", "y = 2", 2)>>
B3 == <<BatchErrorItem("a:1|NameError: b", "z = 3", 2)>>

Batches == {B1, B2, B3}

\* the text the inference service answers with
AIResponses == {"PRIMARY_FIX:\n'''python\nx = [1]\n'''\nPRIMARY_CONFIDENCE: 1.7"}

Outcomes == {Outcome200(r) : r \in AIResponses} \cup {OutcomeStatus, OutcomeException}

(***************************************************************************)
(* What the calls of a request compute, tabulated over the requests of the *)
(* model (each is a function of the batch and of what the network did).    *)
(***************************************************************************)
\* errors_signature of generate_consolidated_fix
SignatureOf == [b \in Batches |-> errors_signature(b)]

\* the ConsolidatedFix of generate_consolidated_fix, the probe having
\* answered a and the generate request having ended in o
FixOf ==
    [b \in Batches, a \in BOOLEAN, o \in Outcomes |->
        ConsolidatedFix(b,
            generate_fixes(extract_clean_code(b[1].code_snippet), ParseAll(b), a, o))]

\* the fallback_fix of process_consolidated_batch
FallbackOf == [b \in Batches |-> FallbackFix(b, "internal error")]

\* the output of the rule-based repairer for the clean code and the parsed
\* errors of a batch, as a ConsolidatedFix
RuleBasedOf ==
    [b \in Batches |->
        ConsolidatedFix(b,
            generate_rule_based_fixes(extract_clean_code(b[1].code_snippet),
                                      ParseAll(b)))]

KeyOf(b) == make_key(SignatureOf[b])

\* a call that ended: how (returned, or raised when an exception left it),
\* for which batch, with which response, after which calls
Ended(how, b, response, calls) ==
    [how |-> how, batch |-> b, response |-> response, calls |-> calls]

NoReturn == Ended("none", <<>>, <<>>, {})

\* the latest call on the cache: the n-th, op(sig) or op(sig, fix), which
\* returned ret and evicted the keys of evicted; with it, what the calls so
\* far amount to: nputs set() calls, the latest fix put under each key, and
\* the keys of the cache from the least to the most recently accessed (put
\* or hit), whatever the clock said
NoApi == [n |-> 0, op |-> "none", sig |-> "", fix |-> <<>>, ret |-> <<>>,
          evicted |-> {}, nputs |-> 0, lastput |-> EmptyMap, order |-> <<>>]

NoFp == [b1 |-> <<>>, b2 |-> <<>>, sig1 |-> "", sig2 |-> "", done |-> FALSE]

\* no pure function called yet: op is the function, arg its arguments, out
\* what it returned, and parts what the arguments were put together from
NoFn == [op |-> "none", arg |-> <<>>, out |-> <<>>, parts |-> <<>>]

\* the program builds its cache with max_size = 1000 (lines 93 and 567);
\* the model runs it with each capacity from 1 to MaxSize
Init ==
    /\ fix_cache \in {FixCache(m) : m \in 1..MaxSize}
    /\ clock = 0
    /\ pc = [t \in Tasks |-> "idle"]
    /\ req = [t \in Tasks |-> <<>>]
    /\ returned = NoReturn
    /\ api = NoApi
    /\ fp = NoFp
    /\ fn = NoFn

(***************************************************************************)
(* process_consolidated_batch, cut at its two awaits.  An internal error   *)
(* is an exception raised by the step named (raises): none, the clean-code *)
(* extraction, the error parsing, or the cache's set().                    *)
(***************************************************************************)
\* From the call to the first await: the signature, the cache lookup and, on
\* a miss, the clean code and the parsed errors, up to the probe being sent.
\* A hit returns at once.  An exception raised on the way is caught at line
\* 452, whose handler extracts the clean code again, outside any try: when
\* the extraction is what raised, it raises again and leaves the call.
Start(t, b, raises) ==
    /\ pc[t] = "idle"
    /\ \E now \in {clock, clock + 1} :
        LET g == cache_get(fix_cache, SignatureOf[b], now)
            hit == g.value # <<>>
        IN  /\ fix_cache' = g.c
            /\ clock' = IF hit THEN now ELSE clock
            /\ req' = [req EXCEPT ![t] = b]
            /\ IF hit
               THEN /\ pc' = [pc EXCEPT ![t] = "finished"]
                    /\ returned' = Ended("returned", b,
                           <<ConsolidatedFixResponse(g.value[1], TRUE)>>, {"get", "hit"})
               ELSE IF raises = "sanitize"
               THEN /\ pc' = [pc EXCEPT ![t] = "finished"]
                    /\ returned' = Ended("raised", b, <<>>, {"get", "sanitize", "except"})
               ELSE IF raises = "normalize"
               THEN /\ pc' = [pc EXCEPT ![t] = "finished"]
                    /\ returned' = Ended("returned", b,
                           <<ConsolidatedFixResponse(FallbackOf[b], FALSE)>>,
                           {"get", "sanitize", "normalize", "except"})
               ELSE /\ pc' = [pc EXCEPT ![t] = "probe"]
                    /\ returned' = returned
    /\ UNCHANGED <<api, fp, fn>>

\* From _generate_fixes returning to the return of the response: the fix
\* built from what it returned is stored and returned; a set() that raises
\* leads to the handler of line 452.
Complete(t, fix, calls, raises) ==
    \E now \in {clock, clock + 1} :
        IF raises
        THEN /\ returned' = Ended("returned", req[t],
                    <<ConsolidatedFixResponse(FallbackOf[req[t]], FALSE)>>,
                    calls \cup {"except"})
             /\ pc' = [pc EXCEPT ![t] = "finished"]
             /\ UNCHANGED <<fix_cache, clock>>
        ELSE /\ fix_cache' = cache_set(fix_cache, SignatureOf[req[t]], fix, now)
             /\ clock' = now
             /\ returned' = Ended("returned", req[t],
                    <<ConsolidatedFixResponse(fix, TRUE)>>, calls \cup {"set"})
             /\ pc' = [pc EXCEPT ![t] = "finished"]

\* The probe of check_ollama_status answers: 200 (ollama_available), or
\* anything else, a timeout included.  Available: the prompt is built and
\* the generate request is sent.  Otherwise the rule-based fixes are stored
\* and returned.
ProbeReturns(t, ollama_available, raises) ==
    /\ pc[t] = "probe"
    /\ IF ollama_available
       THEN /\ pc' = [pc EXCEPT ![t] = "generate"]
            /\ UNCHANGED <<fix_cache, clock, returned>>
       ELSE Complete(t, FixOf[req[t], FALSE, OutcomeException],
                     {"get", "sanitize", "normalize", "probe", "unreachable", "repair"},
                     raises)
    /\ UNCHANGED <<req, api, fp, fn>>

\* The generate request ends in outcome: the response is parsed, or the
\* rule-based fixes are computed; the fix is stored and returned.
GenerateReturns(t, outcome, raises) ==
    /\ pc[t] = "generate"
    /\ Complete(t, FixOf[req[t], TRUE, outcome],
                {"get", "sanitize", "normalize", "probe", "generate"}
                \cup (IF outcome.kind = "200" THEN {"parse"} ELSE {"failed", "repair"}),
                raises)
    /\ UNCHANGED <<req, api, fp, fn>>

\* a variant of ClearCache: the instance is emptied in place and keeps its
\* counters
ClearCacheInPlace ==
    /\ fix_cache' = [fix_cache EXCEPT !.cache = EmptyMap, !.access_times = <<>>]
    /\ UNCHANGED <<clock, pc, req, returned, api, fp, fn>>

\* clear_cache: the global is bound to a new instance of the same capacity
ClearCache ==
    /\ fix_cache' = FixCache(fix_cache.max_size)
    /\ UNCHANGED <<clock, pc, req, returned, api, fp, fn>>

Next ==
    \/ \E t \in Tasks, b \in Batches, r \in {"none", "sanitize", "normalize"} :
          Start(t, b, r)
    \/ \E t \in Tasks, a \in BOOLEAN, r \in BOOLEAN : ProbeReturns(t, a, r)
    \/ \E t \in Tasks, o \in Outcomes, r \in BOOLEAN : GenerateReturns(t, o, r)
    \/ ClearCache

Spec == Init /\ [][Next]_vars


(***************************************************************************)
(* CacheSpec: FixCache alone, under any sequence of get and set calls.     *)
(***************************************************************************)
\* the signatures and the fixes the calls are made with
Signatures == {"a:1", "b:2", "a:1|b:2", "c:3"}

SampleFixes == {RuleBasedOf[B1], RuleBasedOf[B2]}

\* order with key moved to its end
Touch(order, key) == Append(SelectSeq(order, LAMBDA k : k # key), key)

\* order without the keys that are no longer in cache
Present(order, cache) == SelectSeq(order, LAMBDA k : k \in DOMAIN cache)

ApiGet(sig) ==
    /\ api.n < MaxOps
    /\ \E now \in {clock, clock + 1} :
        LET g == cache_get(fix_cache, sig, now)
        IN  /\ fix_cache' = g.c
            /\ clock' = IF g.value # <<>> THEN now ELSE clock
            /\ api' = [api EXCEPT !.n = @ + 1, !.op = "get", !.sig = sig,
                                  !.fix = <<>>, !.ret = g.value, !.evicted = {},
                                  !.order = IF g.value # <<>>
                                            THEN Touch(@, make_key(sig)) ELSE @]
    /\ UNCHANGED <<pc, req, returned, fp, fn>>

ApiSet(sig, fix) ==
    /\ api.n < MaxOps
    /\ \E now \in {clock, clock + 1} :
        /\ fix_cache' = cache_set(fix_cache, sig, fix, now)
        /\ clock' = now
        /\ api' = [api EXCEPT
               !.n = @ + 1, !.op = "set", !.sig = sig, !.fix = <<fix>>,
               !.ret = <<>>,
               !.evicted = DOMAIN fix_cache.cache \ DOMAIN fix_cache'.cache,
               !.nputs = @ + 1,
               !.lastput = PutKey(@, make_key(sig), fix),
               !.order = Touch(Present(@, fix_cache'.cache), make_key(sig))]
    /\ UNCHANGED <<pc, req, returned, fp, fn>>

CacheNext ==
    \/ \E sig \in Signatures : ApiGet(sig)
    \/ \E sig \in Signatures, fix \in SampleFixes : ApiSet(sig, fix)

CacheSpec == Init /\ [][CacheNext]_vars

(***************************************************************************)
(* FingerprintSpec: the signature of generate_consolidated_fix, computed   *)
(* for two batches.                                                        *)
(***************************************************************************)
FpItems ==
    {BatchErrorItem(m, "x", l) : m \in {"a", "b", "a:1|b"}, l \in {1, 2}}

FpBatches == UNION {[1..n -> FpItems] : n \in 1..MaxBatchLen}

FpInit ==
    /\ fix_cache = FixCache(MaxSize)
    /\ clock = 0
    /\ pc = [t \in Tasks |-> "idle"]
    /\ req = [t \in Tasks |-> <<>>]
    /\ returned = NoReturn
    /\ api = NoApi
    /\ fn = NoFn
    /\ fp \in {[NoFp EXCEPT !.b1 = x, !.b2 = y] : x \in FpBatches, y \in FpBatches}

Fingerprint ==
    /\ ~fp.done
    /\ fp' = [fp EXCEPT !.sig1 = make_key(errors_signature(fp.b1)),
                        !.sig2 = make_key(errors_signature(fp.b2)),
                        !.done = TRUE]
    /\ UNCHANGED <<fix_cache, clock, pc, req, returned, api, fn>>

FingerprintSpec == FpInit /\ [][Fingerprint]_vars


(***************************************************************************)
(* FunctionSpec: the pure functions of the program, each called on inputs  *)
(* drawn from a bounded set; fn holds the latest call.                     *)
(***************************************************************************)
\* a call of op on the arguments arg, put together from parts, that
\* returned out
Called(op, arg, out, parts) ==
    [op |-> op, arg |-> arg, out |-> out, parts |-> parts]

\* the lines snippets are made of: code, blank, numbered, with the >>>
\* marker, and the two kinds of injected context, with and without a number
SnippetLines ==
    {"", "x = [1", "  3: x = [1", "        >>> y = 2", "  7: ",
     "    4: >>> z", "# File imports: os", "  1: # Function context: f"}

\* the snippets of 1 to MaxLines lines
Snippets ==
    {Join(ls, "\n") : ls \in UNION {[1..n -> SnippetLines] : n \in 1..MaxLines}}

\* CleanCodeExtractor.extract_clean_code called on a snippet, or on what
\* its latest call returned when that differs from what it was given
Sanitize ==
    /\ \E s \in IF fn.op = "none" THEN Snippets
                 ELSE IF fn.op = "extract_clean_code" /\ fn.out # fn.arg[1]
                 THEN {fn.out} ELSE {} :
           fn' = Called("extract_clean_code", <<s>>, extract_clean_code(s), <<>>)
    /\ UNCHANGED <<fix_cache, clock, pc, req, returned, api, fp>>

\* what a response of the inference service says of each field: nothing
\* ("absent"), or the text written after the field's label
ResponseFields ==
    [primary_fix : {"absent", "'''python\nx = [1]\n'''", "x = [1]"},
     primary_explanation : {"absent", "closed the bracket"},
     primary_confidence : {"absent", "0.5", "1.7", "-0.3", "1.2.3", "high"},
     alternative_fix : {"absent", "'''python\nx = []\n'''"},
     alternative_explanation : {"absent", "emptied the list"},
     alternative_confidence : {"absent", "0.6", "1.7", "-0.3"}]

\* the line of a field in the response: its label and its text, or nothing
FieldText(label, text) ==
    IF text = "absent" THEN "" ELSE label \o " " \o text \o "\n"

\* the response that says f, in the order the prompt asks for
ResponseText(f) ==
    FieldText("PRIMARY_FIX:", f.primary_fix)
    \o FieldText("PRIMARY_EXPLANATION:", f.primary_explanation)
    \o FieldText("PRIMARY_CONFIDENCE:", f.primary_confidence)
    \o FieldText("ALTERNATIVE_FIX:", f.alternative_fix)
    \o FieldText("ALTERNATIVE_EXPLANATION:", f.alternative_explanation)
    \o FieldText("ALTERNATIVE_CONFIDENCE:", f.alternative_confidence)

\* the clean code the responses are about
OriginalCode == "x = [1"

\* ConsolidatedFixGenerator._parse_ai_response called on a response
ParseResponse ==
    /\ fn.op = "none"
    /\ \E f \in ResponseFields :
           fn' = Called("parse_ai_response", <<ResponseText(f), OriginalCode>>,
                        parse_ai_response(ResponseText(f), OriginalCode), f)
    /\ UNCHANGED <<fix_cache, clock, pc, req, returned, api, fp>>

\* the last lines of the messages given to the normalizer: with a bracket
\* pattern and an Error: token, with one or two suffix tokens, with none
ErrorLines ==
    {"SyntaxError: \"[\" was not closed", "ValueError: \"(\" was not closed",
     "IndexError: \"]\" was never opened", "NameError: b",
     "MyException: ValueError: c", "KeyException: d", "UserWarning: e",
     "invalid syntax"}

\* what a message holds before its last line: nothing, or lines of a
\* traceback
ErrorHeads == {"", "Traceback (most recent call last):\n", "TypeError: z\n"}

\* ErrorParser.parse_python_error called on a message: a head, the error
\* line, a final newline or none
Normalize ==
    /\ fn.op = "none"
    /\ \E head \in ErrorHeads, line \in ErrorLines, tail \in {"", "\n"} :
           fn' = Called("parse_python_error", <<head \o line \o tail>>,
                        parse_python_error(head \o line \o tail), line)
    /\ UNCHANGED <<fix_cache, clock, pc, req, returned, api, fp>>

\* the clean codes given to the repairer: one or two brackets missing,
\* brackets balanced, a parenthesis missing, none
RepairCodes == {"x = [1, 2, 3", "x = [[1", "x = [1]", "f(x[0]", "y = 2"}

\* the parsed errors given to the repairer, as the normalizer returns them
RepairErrors ==
    {parse_python_error(m) :
        m \in {"SyntaxError: \"[\" was not closed",
               "SyntaxError: \"(\" was not closed", "NameError: b"}}

\* ConsolidatedFixGenerator._generate_rule_based_fixes called on a clean
\* code and 1 to MaxErrors parsed errors
Repair ==
    /\ fn.op = "none"
    /\ \E code \in RepairCodes,
          errors \in UNION {[1..n -> RepairErrors] : n \in 1..MaxErrors} :
           fn' = Called("generate_rule_based_fixes", <<code, errors>>,
                        generate_rule_based_fixes(code, errors), <<>>)
    /\ UNCHANGED <<fix_cache, clock, pc, req, returned, api, fp>>

FunctionNext ==
    \/ Sanitize
    \/ ParseResponse
    \/ Normalize
    \/ Repair

\* one call, of any of the functions, on any of the inputs (and the
\* sanitizer again on its output)
FunctionInit ==
    /\ fix_cache = FixCache(MaxSize)
    /\ clock = 0
    /\ pc = [t \in Tasks |-> "idle"]
    /\ req = [t \in Tasks |-> <<>>]
    /\ returned = NoReturn
    /\ api = NoApi
    /\ fp = NoFp
    /\ fn = NoFn

FunctionSpec == FunctionInit /\ [][FunctionNext]_vars

(***************************************************************************)
(* The properties of FixCache (CacheSpec).                                 *)
(***************************************************************************)
Size(c) == Cardinality(DOMAIN c.cache)

\* the step is a set() call that puts a key the cache does not hold into a
\* cache that is full
SetNewIntoFull ==
    /\ api'.n = api.n + 1
    /\ api'.op = "set"
    /\ make_key(api'.sig) \notin DOMAIN fix_cache.cache
    /\ Size(fix_cache) >= fix_cache.max_size

\* C5: after any sequence of get and set calls on a cache of max_size >= 1
\* the cache holds at most max_size entries, and once max_size + 1 or more
\* set calls were made, all on different signatures, it holds exactly
\* max_size entries.
C5_SizeBounded ==
    /\ Size(fix_cache) <= fix_cache.max_size
    /\ (/\ api.nputs = Cardinality(DOMAIN api.lastput)
        /\ api.nputs > fix_cache.max_size)
       => Size(fix_cache) = fix_cache.max_size

\* C5 witness: max_size + 1 different signatures were put, and one entry
\* was evicted for the last of them.
C5_Witness ==
    /\ api.op = "set"
    /\ api.nputs = fix_cache.max_size + 1
    /\ Cardinality(DOMAIN api.lastput) = api.nputs
    /\ Cardinality(api.evicted) = 1
    /\ Size(fix_cache) = fix_cache.max_size

\* C6 as claimed: a set() of a new key into a full cache evicts exactly the
\* entry whose last access (put or get hit) is the oldest.
C6_EvictsLeastRecentlyAccessed ==
    [][SetNewIntoFull =>
          DOMAIN fix_cache.cache \ DOMAIN fix_cache'.cache = {Head(api.order)}]_vars

\* C6 amended: a set() of a new key into a full cache evicts exactly one
\* entry, the first in the order of the timestamp dict among those of the
\* smallest timestamp (a timestamp being the clock reading of the entry's
\* latest set or get hit); so no entry is evicted whose timestamp is larger
\* than another entry's.
C6_EvictsSmallestTimestamp ==
    [][SetNewIntoFull =>
          \E k \in DOMAIN fix_cache.cache :
              /\ DOMAIN fix_cache.cache \ DOMAIN fix_cache'.cache = {k}
              /\ TimeKeys(fix_cache'.access_times)
                     = (TimeKeys(fix_cache.access_times) \ {k})
                       \cup {make_key(api'.sig)}
              /\ \A i \in DOMAIN fix_cache.access_times :
                     LET e == fix_cache.access_times[i]
                         ek == TimeOf(fix_cache.access_times, k)
                     IN  /\ e.time >= ek
                         /\ (e.time = ek /\ e.key # k)
                            => \E j \in 1..(i - 1) :
                                   fix_cache.access_times[j].key = k]_vars

\* C6 witness: a set() of a new key into a full cache of two or more
\* entries evicted one of them.
C6_Witness ==
    /\ api.op = "set"
    /\ fix_cache.max_size >= 2
    /\ Size(fix_cache) = fix_cache.max_size
    /\ \E k \in DOMAIN api.lastput :
           /\ api.evicted = {k}
           /\ k # make_key(api.sig)
           /\ k \notin DOMAIN fix_cache.cache

\* C7: a set(f, x) leaves f in the cache with x, also when it had to evict;
\* an entry of the cache always holds the fix of the latest set() on its
\* key, whatever calls on other keys were made since; and a get(f) returns
\* that fix when f is in the cache and None only when it is not.
C7_RoundTrip ==
    /\ \A k \in DOMAIN fix_cache.cache :
           k \in DOMAIN api.lastput /\ fix_cache.cache[k] = api.lastput[k]
    /\ api.op = "set" =>
           /\ make_key(api.sig) \in DOMAIN fix_cache.cache
           /\ fix_cache.cache[make_key(api.sig)] = api.fix[1]
    /\ api.op = "get" =>
           IF make_key(api.sig) \in DOMAIN fix_cache.cache
           THEN api.ret = <<api.lastput[make_key(api.sig)]>>
           ELSE api.ret = <<>>

\* C7 witness: a get hit right after calls on other keys, one of which
\* evicted an entry, returns the fix put under its key.
C7_Witness ==
    /\ api.op = "get"
    /\ api.ret # <<>>
    /\ api.ret[1] = api.lastput[make_key(api.sig)]
    /\ Cardinality(DOMAIN api.lastput) > Size(fix_cache)
    /\ api.nputs >= 3


(***************************************************************************)
(* Claims on process_consolidated_batch, checked under Spec.               *)
(***************************************************************************)
\* task t's call ends in this step, having been past the cache lookup
CompletesAfterMiss(t) ==
    pc[t] \in {"probe", "generate"} /\ pc'[t] = "finished"

\* task t's call starts in this step and finds its key in the cache
StartsOnHit(t) ==
    /\ pc[t] = "idle"
    /\ pc'[t] # "idle"
    /\ KeyOf(req'[t]) \in DOMAIN fix_cache.cache

\* C1: whatever internal step raises, a call that ends ends by returning a
\* response that carries a fix; a raised step gives the fallback fix with
\* success false.  No call ends by raising an exception.
C1_AlwaysReturnsResponse ==
    /\ returned.how \in {"none", "returned"}
    /\ returned.how = "returned" =>
          /\ Len(returned.response) = 1
          /\ "except" \in returned.calls =>
                returned.response[1] =
                    ConsolidatedFixResponse(FallbackOf[returned.batch], FALSE)

\* C2: a call whose probe found the service unreachable, or whose generate
\* request failed, and in which nothing else raised, returned the rule-based
\* fixes of its batch with success true.
C2_FallsBackToRuleBased ==
    (/\ returned.how = "returned"
     /\ returned.calls \cap {"unreachable", "failed"} # {}
     /\ "except" \notin returned.calls)
    => returned.response =
           <<ConsolidatedFixResponse(RuleBasedOf[returned.batch], TRUE)>>

\* C2 witness: a call whose generate request failed returned the rule-based
\* fixes, here with a bracket closed by the rules.
C2_Witness ==
    /\ returned.how = "returned"
    /\ "failed" \in returned.calls
    /\ "except" \notin returned.calls
    /\ returned.response[1].success
    /\ returned.response[1].consolidated_fix = RuleBasedOf[returned.batch]
    /\ returned.response[1].consolidated_fix.primary_confidence = 90

\* C3: a call that missed the cache and ends with success true has, in the
\* step it returns in, its fix in the cache under its fingerprint: a get of
\* that fingerprint right after hits and gives the fix returned.
C3_StoredBeforeReturn ==
    [][\A t \in Tasks :
          (CompletesAfterMiss(t) /\ returned'.response[1].success) =>
             /\ KeyOf(req[t]) \in DOMAIN fix_cache'.cache
             /\ fix_cache'.cache[KeyOf(req[t])] =
                    returned'.response[1].consolidated_fix
             /\ cache_get(fix_cache', SignatureOf[req[t]], clock').value =
                    <<returned'.response[1].consolidated_fix>>]_vars

\* C3 witness: a call that parsed a model response has returned, and its fix
\* is in the cache under its fingerprint.
C3_Witness ==
    /\ returned.how = "returned"
    /\ {"set", "parse"} \subseteq returned.calls
    /\ returned.response[1].success
    /\ KeyOf(returned.batch) \in DOMAIN fix_cache.cache
    /\ fix_cache.cache[KeyOf(returned.batch)] =
           returned.response[1].consolidated_fix

\* C4: a call that starts with its fingerprint in the cache ends in that
\* step: it returns the cached fix with success true, having run no step
\* but the lookup; the entries of the cache are the same, the timestamps of
\* the other entries are the same, and the hit and request counters are one
\* more.
C4_HitReturnsCached ==
    [][\A t \in Tasks :
          StartsOnHit(t) =>
             /\ pc'[t] = "finished"
             /\ returned' = Ended("returned", req'[t],
                    <<ConsolidatedFixResponse(
                          fix_cache.cache[KeyOf(req'[t])], TRUE)>>,
                    {"get", "hit"})
             /\ fix_cache'.cache = fix_cache.cache
             /\ fix_cache'.max_size = fix_cache.max_size
             /\ TimeKeys(fix_cache'.access_times) =
                    TimeKeys(fix_cache.access_times)
             /\ \A k \in DOMAIN fix_cache.cache \ {KeyOf(req'[t])} :
                    TimeOf(fix_cache'.access_times, k) =
                        TimeOf(fix_cache.access_times, k)
             /\ fix_cache'.hit_count = fix_cache.hit_count + 1
             /\ fix_cache'.total_requests = fix_cache.total_requests + 1]_vars

\* C4 witness: a call has returned from a hit, with the fix the cache holds
\* under its fingerprint.
C4_Witness ==
    /\ returned.how = "returned"
    /\ returned.calls = {"get", "hit"}
    /\ fix_cache.hit_count >= 1
    /\ KeyOf(returned.batch) \in DOMAIN fix_cache.cache
    /\ returned.response =
           <<ConsolidatedFixResponse(fix_cache.cache[KeyOf(returned.batch)], TRUE)>>


\* C8: in every state a task can observe, the cache and the timestamp dict
\* hold the same keys, once each, and no more than max_size of them; and a
\* key leaves the cache only in a clear, or in the step of a set() that
\* leaves its own key in the cache with the fix it stored: the eviction and
\* the insertion of a set() are one step.
C8_PutIsAtomic ==
    /\ [](/\ DOMAIN fix_cache.cache = TimeKeys(fix_cache.access_times)
          /\ Len(fix_cache.access_times) = Size(fix_cache)
          /\ Size(fix_cache) <= fix_cache.max_size)
    /\ [][DOMAIN fix_cache.cache \ DOMAIN fix_cache'.cache # {} =>
             \/ fix_cache' = FixCache(fix_cache.max_size)
             \/ \E t \in Tasks :
                   /\ CompletesAfterMiss(t)
                   /\ KeyOf(req[t]) \in DOMAIN fix_cache'.cache
                   /\ fix_cache'.cache[KeyOf(req[t])] =
                          returned'.response[1].consolidated_fix]_vars

\* C8 witness: one call has stored its fix, filling the cache, while another
\* call is suspended at an await.
C8_Witness ==
    /\ \E t \in Tasks : pc[t] \in {"probe", "generate"}
    /\ "set" \in returned.calls
    /\ Size(fix_cache) = fix_cache.max_size
    /\ fix_cache.total_requests >= 2
    /\ DOMAIN fix_cache.cache = TimeKeys(fix_cache.access_times)

\* C9: of the calls that run at once with one fingerprint, at most one
\* generates and stores a fix: no call stores a fix under a key the cache
\* holds, the others having returned the cached fix.
C9_GeneratedOnce ==
    [][\A t \in Tasks :
          (CompletesAfterMiss(t) /\ "set" \in returned'.calls) =>
             KeyOf(req[t]) \notin DOMAIN fix_cache.cache]_vars

(***************************************************************************)
(* Claims on the signature, checked under FingerprintSpec.                 *)
(***************************************************************************)
\* C10: two batches that differ in a message, a line number, the order or
\* the number of their errors have different fingerprints.
C10_FingerprintInjective ==
    (fp.done /\ fp.b1 # fp.b2) => fp.sig1 # fp.sig2


(***************************************************************************)
(* More claims on process_consolidated_batch, checked under Spec.          *)
(***************************************************************************)
\* C11: a call in which a step raised, whichever the step, returned a
\* response with success false, both confidences 0.1, the clean code of the
\* first error's snippet as primary fix, and that clean code after the
\* manual-review line as alternative fix.
C11_DegradedResponse ==
    "except" \in returned.calls =>
        /\ returned.how = "returned"
        /\ Len(returned.response) = 1
        /\ LET r == returned.response[1]
               clean == extract_clean_code(returned.batch[1].code_snippet)
           IN  /\ r.success = FALSE
               /\ r.consolidated_fix.primary_confidence = 10
               /\ r.consolidated_fix.alternative_confidence = 10
               /\ r.consolidated_fix.primary_fix = clean
               /\ r.consolidated_fix.alternative_fix =
                      "# TODO: Fix errors manually\n" \o clean

\* C12: a response with success true to a batch of n errors has
\* total_errors = n and n entries in errors_fixed, the i-th being
\* "Line <line_number>: <error_detail>" of the i-th error of the batch,
\* whether the fix was computed or came from the cache.
C12_ErrorsFixedOfRequest ==
    (returned.how = "returned" /\ returned.response[1].success) =>
        LET fix == returned.response[1].consolidated_fix
            errors == returned.batch
        IN  /\ fix.total_errors = Len(errors)
            /\ Len(fix.errors_fixed) = Len(errors)
            /\ \A i \in 1..Len(errors) :
                   fix.errors_fixed[i] =
                       "Line " \o IntToStr(errors[i].line_number) \o ": "
                       \o parse_python_error(errors[i].error_message).error_detail


(***************************************************************************)
(* Claims on the pure functions, checked under FunctionSpec.               *)
(***************************************************************************)
\* C13: what the sanitizer returns, for a snippet of context lines,
\* numbered lines, marked lines, blank lines and code lines, is a fixed
\* point of the sanitizer: sanitizing it again returns it unchanged.
C13_SanitizeIdempotent ==
    fn.op = "extract_clean_code" => extract_clean_code(fn.out) = fn.out


\* C14: a confidence a response claims is clamped into [0, 1]: 1.7 is
\* parsed as 1.0 and -0.3 as 0.0, for the primary and for the alternative
\* confidence.
C14_ConfidenceClamped ==
    fn.op = "parse_ai_response" =>
        /\ fn.parts.primary_confidence = "1.7" => fn.out.primary_confidence = 100
        /\ fn.parts.primary_confidence = "-0.3" => fn.out.primary_confidence = 0
        /\ fn.parts.alternative_confidence = "1.7" =>
               fn.out.alternative_confidence = 100
        /\ fn.parts.alternative_confidence = "-0.3" =>
               fn.out.alternative_confidence = 0


\* C18: each of the six fields of a parsed response depends on its own part
\* of the response alone: a field given well formed takes the value given,
\* and a field that is absent or malformed takes its default, whatever the
\* other fields are.  (What a negative confidence gives is left open here.)
C18_FieldsIndependent ==
    fn.op = "parse_ai_response" =>
        LET f == fn.parts
            Conf(text, default) ==
                CASE text = "0.5" -> {50}
                  [] text = "0.6" -> {60}
                  [] text = "1.7" -> {100}
                  [] text = "-0.3" -> {0, default}
                  [] OTHER -> {default}
        IN  /\ fn.out.primary_fix =
                   (IF f.primary_fix = "'''python\nx = [1]\n'''"
                    THEN "x = [1]" ELSE OriginalCode)
            /\ fn.out.primary_explanation =
                   (IF f.primary_explanation = "absent"
                    THEN "AI provided fixes" ELSE f.primary_explanation)
            /\ fn.out.primary_confidence \in Conf(f.primary_confidence, 80)
            /\ fn.out.alternative_fix =
                   (IF f.alternative_fix = "'''python\nx = []\n'''"
                    THEN "x = []" ELSE OriginalCode)
            /\ fn.out.alternative_explanation =
                   (IF f.alternative_explanation = "absent"
                    THEN "Alternative AI fixes" ELSE f.alternative_explanation)
            /\ fn.out.alternative_confidence \in Conf(f.alternative_confidence, 70)


(***************************************************************************)
(* More properties of FixCache (CacheSpec).                                *)
(***************************************************************************)
\* C15: a get adds 1 to total_requests, and 1 to hit_count when it hits and
\* nothing when it misses; a set changes neither counter; so
\* 0 <= hit_count <= total_requests in every state, and the hit rate of
\* stats() is hit_count / max(total_requests, 1): 0 before any request and
\* never above 1.
C15_Counters ==
    /\ [](/\ 0 <= fix_cache.hit_count
          /\ fix_cache.hit_count <= fix_cache.total_requests
          /\ LET rate == cache_stats(fix_cache).hit_rate
             IN  /\ rate[1] = fix_cache.hit_count
                 /\ rate[2] = (IF fix_cache.total_requests >= 1
                               THEN fix_cache.total_requests ELSE 1)
                 /\ rate[1] <= rate[2]
                 /\ fix_cache.total_requests = 0 => rate[1] = 0)
    /\ [][api'.n = api.n + 1 =>
             /\ api'.op = "get" =>
                   /\ fix_cache'.total_requests = fix_cache.total_requests + 1
                   /\ fix_cache'.hit_count =
                          fix_cache.hit_count
                          + (IF make_key(api'.sig) \in DOMAIN fix_cache.cache
                             THEN 1 ELSE 0)
                   /\ (api'.ret # <<>>) <=>
                          (make_key(api'.sig) \in DOMAIN fix_cache.cache)
             /\ api'.op = "set" =>
                   /\ fix_cache'.total_requests = fix_cache.total_requests
                   /\ fix_cache'.hit_count = fix_cache.hit_count]_vars

\* C15 witness: after gets that hit, gets that missed and sets, the
\* counters differ and the cache holds an entry.
C15_Witness ==
    /\ fix_cache.hit_count >= 1
    /\ fix_cache.total_requests > fix_cache.hit_count
    /\ api.nputs >= 1
    /\ api.op = "get"
    /\ api.ret = <<>>
    /\ cache_stats(fix_cache).hit_rate = <<fix_cache.hit_count, fix_cache.total_requests>>


(***************************************************************************)
(* The reset of the cache, checked under Spec.                             *)
(***************************************************************************)
\* the step changes the cache and is no step of a request: it is a reset
ResetStep == fix_cache' # fix_cache /\ pc' = pc

\* C16: a reset leaves, in one step, a cache with no entry and no
\* timestamp, both counters 0 and the capacity it had; a get of the
\* fingerprint of any batch then misses; the requests in flight stay where
\* they are.
C16_ResetIsFresh ==
    [][ResetStep =>
          /\ fix_cache' = FixCache(fix_cache.max_size)
          /\ Size(fix_cache') = 0
          /\ cache_stats(fix_cache').hit_count = 0
          /\ cache_stats(fix_cache').total_requests = 0
          /\ cache_stats(fix_cache').max_size = fix_cache.max_size
          /\ \A b \in Batches :
                 cache_get(fix_cache', SignatureOf[b], clock').value = <<>>
          /\ UNCHANGED <<req, returned>>]_vars

\* C16 witness: a request has stored its fix and returned, the cache was
\* reset since, and another request is in flight.
C16_Witness ==
    /\ returned.how = "returned"
    /\ "set" \in returned.calls
    /\ \E t \in Tasks : pc[t] \in {"probe", "generate"}
    /\ fix_cache = FixCache(fix_cache.max_size)


(***************************************************************************)
(* The timestamps of FixCache (CacheSpec).                                 *)
(***************************************************************************)
\* the step is a set() call on a key the cache holds
SetExisting ==
    /\ api'.n = api.n + 1
    /\ api'.op = "set"
    /\ make_key(api'.sig) \in DOMAIN fix_cache.cache

\* C17: a set() on a key the cache holds leaves the timestamp of that key
\* as it was, and with it the order in which entries are evicted: only a get
\* that hits refreshes a timestamp.
C17_OverwriteKeepsTimestamp ==
    [][SetExisting =>
          /\ make_key(api'.sig) \in TimeKeys(fix_cache'.access_times)
          /\ TimeOf(fix_cache'.access_times, make_key(api'.sig)) =
                 TimeOf(fix_cache.access_times, make_key(api'.sig))]_vars


\* the line matches one of the two bracket patterns
BracketLine(line) ==
    \E b \in {"[", "(", "{"} :
        \/ Contains(line, "\"" \o b \o "\" was not closed")
        \/ Contains(line, "\"" \o (CASE b = "[" -> "]" [] b = "(" -> ")" [] OTHER -> "}")
                          \o "\" was never opened")

\* C19: the rules are tried on the last line of the message in the order
\* unclosed bracket, unopened bracket, Error:, Exception:, Warning:, and the
\* first that matches decides alone.  A line of a bracket pattern gives
\* SyntaxError and the whole line, also when it holds an Error: token; then
\* the first suffix found in that order gives a type of that suffix, taken
\* from the line, and a detail without that token; a line of no pattern
\* gives SyntaxError and the line itself.
C19_FirstRuleDecides ==
    fn.op = "parse_python_error" =>
        LET line == fn.parts
            SuffixDecides(suffix) ==
                /\ EndsWith(fn.out.error_type, suffix)
                /\ Contains(line, fn.out.error_type \o ":")
                /\ ~Contains(fn.out.error_detail, suffix \o ":")
        IN  /\ fn.out.full_traceback = fn.arg[1]
            /\ IF BracketLine(line)
               THEN fn.out.error_type = "SyntaxError" /\ fn.out.error_detail = line
               ELSE IF Contains(line, "Error:") THEN SuffixDecides("Error")
               ELSE IF Contains(line, "Exception:") THEN SuffixDecides("Exception")
               ELSE IF Contains(line, "Warning:") THEN SuffixDecides("Warning")
               ELSE fn.out.error_type = "SyntaxError" /\ fn.out.error_detail = line

\* C19 witness: a line of a bracket pattern that holds the token ValueError:
\* was parsed as a SyntaxError with the whole line as detail.
C19_Witness ==
    /\ fn.op = "parse_python_error"
    /\ fn.parts = "ValueError: \"(\" was not closed"
    /\ fn.arg[1] # fn.parts
    /\ fn.out.error_type = "SyntaxError"
    /\ fn.out.error_detail = fn.parts


\* the parsed error e reports an unclosed "["
UnclosedBracket(e) ==
    e.error_type = "SyntaxError" /\ Contains(e.error_detail, "\"[\" was not closed")

\* the parsed error e reports an unclosed "("
UnclosedParen(e) ==
    e.error_type = "SyntaxError" /\ Contains(e.error_detail, "\"(\" was not closed")

\* how many more c than d the code holds
Excess(code, c, d) == Count(code, c) - Count(code, d)

\* C20: given a code with more "[" than "]" and errors that all report an
\* unclosed "[", the repairer returns as primary fix the code followed by
\* exactly as many "]" as were missing, however often the error is repeated,
\* with confidences 0.9 and 0.8; with other errors in the batch as well the
\* primary fix still starts with the code and holds as many "]" as "[";
\* given errors none of which finds something to repair, it returns the
\* code as it was with confidences 0.6 and 0.5.
C20_BracketRepair ==
    fn.op = "generate_rule_based_fixes" =>
        LET code == fn.arg[1]
            errors == fn.arg[2]
            missing == Excess(code, "[", "]")
            Some(P(_)) == \E i \in 1..Len(errors) : P(errors[i])
            All(P(_)) == \A i \in 1..Len(errors) : P(errors[i])
        IN  /\ (missing > 0 /\ All(UnclosedBracket)) =>
                   /\ fn.out.primary_fix = code \o Repeat("]", missing)
                   /\ fn.out.primary_confidence = 90
                   /\ fn.out.alternative_confidence = 80
            /\ (missing > 0 /\ Some(UnclosedBracket)) =>
                   /\ StartsWith(fn.out.primary_fix, code)
                   /\ Excess(fn.out.primary_fix, "[", "]") = 0
                   /\ fn.out.primary_confidence = 90
                   /\ fn.out.alternative_confidence = 80
            /\ (/\ ~(missing > 0 /\ Some(UnclosedBracket))
                /\ ~(Excess(code, "(", ")") > 0 /\ Some(UnclosedParen))) =>
                   /\ fn.out.primary_fix = code
                   /\ fn.out.primary_confidence = 60
                   /\ fn.out.alternative_confidence = 50

\* C20 witness: the code "x = [[1" with its two missing brackets, given
\* the unclosed-bracket error twice, came back as "x = [[1]]".
C20_Witness ==
    /\ fn.op = "generate_rule_based_fixes"
    /\ fn.arg[1] = "x = [[1"
    /\ Len(fn.arg[2]) = 2
    /\ \A i \in 1..2 : UnclosedBracket(fn.arg[2][i])
    /\ fn.out.primary_fix = "x = [[1]]"
    /\ fn.out.primary_confidence = 90


(***************************************************************************)
(* OfflineSpec: the requests of Spec with the inference service            *)
(* unreachable throughout: every probe answers that it is not available,   *)
(* so every fix that is computed is the rule-based one.                    *)
(***************************************************************************)
OfflineNext ==
    \/ \E t \in Tasks, b \in Batches, r \in {"none", "sanitize", "normalize"} :
          Start(t, b, r)
    \/ \E t \in Tasks, r \in BOOLEAN : ProbeReturns(t, FALSE, r)
    \/ ClearCache

OfflineSpec == Init /\ [][OfflineNext]_vars

\* C21: with the service unreachable throughout, whatever requests came
\* before, the fix a call returns for its batch, no step of it having
\* raised, is the fix computed for that batch with an empty cache: the
\* rule-based repair of the clean code of the batch's own first snippet for
\* the batch's own errors.
C21_CacheTransparent ==
    (returned.how = "returned" /\ "except" \notin returned.calls) =>
        /\ returned.response[1].success
        /\ returned.response[1].consolidated_fix = RuleBasedOf[returned.batch]


(***************************************************************************)
(* The overwriting set() of FixCache (CacheSpec).                          *)
(***************************************************************************)
\* C22: a set() on a key the cache holds removes no entry, also when the
\* cache is full: every key of the cache is still in it afterwards, and it
\* holds as many entries as before.
C22_OverwriteEvictsNothing ==
    [][SetExisting =>
          /\ DOMAIN fix_cache.cache \subseteq DOMAIN fix_cache'.cache
          /\ Size(fix_cache') = Size(fix_cache)]_vars

====
